---------------------------- MODULE Spec2Model ----------------------------
(***************************************************************************)
(* A model of budgee: the budget manager (src/src/budgee/manager.py), the  *)
(* data structures it manages (src/src/budgee/structures.py) and the       *)
(* slugify utility (src/src/budgee/utils.py).                              *)
(*                                                                         *)
(* Text is a sequence of characters; a character is a one-token string.    *)
(* Python objects are heap cells: a list holds object identities, never    *)
(* copies, so that replacing a registered object leaves the old one alive  *)
(* wherever a list still refers to it.                                     *)
(***************************************************************************)
EXTENDS Integers, Sequences, FiniteSets, TLC

VARIABLES
    persons,    \* Manager.persons : name -> identity of a Person
    incomes,    \* Manager.incomes : name -> identity of an Income
    expenses,   \* Manager.expenses: name -> identity of an Expense
    pobj,       \* heap of Person objects  : identity -> [name, incomes, expenses]
    tobj,       \* heap of transactions    : identity -> [name, amount, persons]
    last,       \* the last call made: operation, arguments, outcome
    text,       \* slugify: the text given
    slug        \* slugify: the texts returned so far, in order

ledger == <<persons, incomes, expenses, pobj, tobj>>
vars == <<persons, incomes, expenses, pobj, tobj, last, text, slug>>

-----------------------------------------------------------------------------
(* Bounds of the model.                                                    *)

\* longest text given to slugify
MaxLen == 3

SeqsUpTo(S, n) == UNION {[1..k -> S] : k \in 0..n}

-----------------------------------------------------------------------------
(* utils.py: slugify                                                       *)

\* The characters texts are drawn from.  EACUTE is U+00E9, YING is U+5F71,
\* COPY is U+00A9 (the copyright sign, a symbol and not a letter or digit).
Chars == {"a", "A", "1", "-", " ", "EACUTE", "YING", "COPY"}

Texts == SeqsUpTo(Chars, MaxLen)

UpperLetters == <<"A","B","C","D","E","F","G","H","I","J","K","L","M",
                  "N","O","P","Q","R","S","T","U","V","W","X","Y","Z">>
LowerLetters == <<"a","b","c","d","e","f","g","h","i","j","k","l","m",
                  "n","o","p","q","r","s","t","u","v","w","x","y","z">>
Digits == {"0","1","2","3","4","5","6","7","8","9"}

Range(s) == {s[i] : i \in DOMAIN s}

\* unidecode(): the ASCII transliteration of one character.  ASCII is kept;
\* U+00E9 gives "e" and U+5F71 gives "Ying " (tests/test_utils.py), U+00A9
\* gives "(c)" (Unidecode's table for U+00xx).
UnidecodeChar(c) ==
    CASE c = "EACUTE" -> <<"e">>
      [] c = "YING"   -> <<"Y", "i", "n", "g", " ">>
      [] c = "COPY"   -> <<"(", "c", ")">>
      [] OTHER        -> <<c>>

RECURSIVE Unidecode(_)
Unidecode(s) ==
    IF s = <<>> THEN <<>> ELSE UnidecodeChar(Head(s)) \o Unidecode(Tail(s))

\* str.lower() on ASCII text
LowerChar(c) ==
    IF \E i \in DOMAIN UpperLetters : UpperLetters[i] = c
    THEN LowerLetters[CHOOSE i \in DOMAIN UpperLetters : UpperLetters[i] = c]
    ELSE c

Lower(s) == [i \in DOMAIN s |-> LowerChar(s[i])]

\* the character class [a-z0-9]
IsAlnum(c) == c \in Range(LowerLetters) \cup Digits

RECURSIVE DropRun(_)
DropRun(s) ==
    IF s = <<>> \/ IsAlnum(Head(s)) THEN s ELSE DropRun(Tail(s))

\* re.sub(r"[^a-z0-9]+", "-", s): every maximal run of characters outside
\* [a-z0-9] becomes one hyphen
RECURSIVE ReSub(_)
ReSub(s) ==
    IF s = <<>> THEN <<>>
    ELSE IF IsAlnum(Head(s)) THEN <<Head(s)>> \o ReSub(Tail(s))
    ELSE <<"-">> \o ReSub(DropRun(s))

RECURSIVE LStrip(_)
LStrip(s) == IF s # <<>> /\ Head(s) = "-" THEN LStrip(Tail(s)) ELSE s

RECURSIVE RStrip(_)
RStrip(s) ==
    IF s # <<>> /\ s[Len(s)] = "-" THEN RStrip(SubSeq(s, 1, Len(s) - 1)) ELSE s

\* str.strip("-")
Strip(s) == RStrip(LStrip(s))

\* a slugify that forgets to strip the hyphens at the ends
slugify_nostrip(t) == ReSub(Lower(Unidecode(t)))

slugify(t) == Strip(ReSub(Lower(Unidecode(t))))

-----------------------------------------------------------------------------
(* Amounts and shares.  A Python float is modelled by an exact rational    *)
(* <<numerator, denominator>> in lowest terms with a positive denominator. *)

Abs(x) == IF x < 0 THEN -x ELSE x

RECURSIVE Gcd(_, _)
Gcd(a, b) == IF b = 0 THEN a ELSE Gcd(b, a % b)

Rat(n, d) ==
    LET g == Gcd(Abs(n), d) IN IF n = 0 THEN <<0, 1>> ELSE <<n \div g, d \div g>>

RatInt(n) == <<n, 1>>
RatAdd(x, y) == Rat(x[1] * y[2] + y[1] * x[2], x[2] * y[2])
RatSub(x, y) == Rat(x[1] * y[2] - y[1] * x[2], x[2] * y[2])
RatMulInt(x, n) == Rat(x[1] * n, x[2])

\* The outcome of a call that returns a number or raises: err is "none" and
\* val the number returned, or err names the exception raised.
Returned(v) == [err |-> "none", val |-> v]
Raised(e) == [err |-> e, val |-> <<0, 1>>]

-----------------------------------------------------------------------------
(* structures.py: Person and _Transaction (Income, Expense).               *)
(* The operators take the heaps as arguments so that they can be applied   *)
(* to the ledger before and after a step.                                  *)

\* Person(name): both lists start empty
NewPerson(name) == [name |-> name, incomes |-> <<>>, expenses |-> <<>>]

\* Income(name, amount), Expense(name, amount): the dataclass stores the
\* amount as given and starts with no person
NewTransaction(name, amount) ==
    [name |-> name, amount |-> amount, persons |-> <<>>]

\* a share that divides among the other persons only
ShareOthers(t) ==
    IF Len(t.persons) < 2 THEN Raised("ValueError")
    ELSE Returned(Rat(t.amount, Len(t.persons) - 1))

\* _Transaction.share
Share(t) ==
    IF Len(t.persons) < 1 THEN Raised("ValueError")
    ELSE Returned(Rat(t.amount, Len(t.persons)))

\* sum(t.share() for t in ids): starts at 0 and adds each share in turn; a
\* share that raises makes the sum raise
RECURSIVE SumShares(_, _)
SumShares(th, ids) ==
    IF ids = <<>> THEN Returned(RatInt(0))
    ELSE LET s == Share(th[Head(ids)])
             r == SumShares(th, Tail(ids))
         IN IF s.err # "none" THEN s
            ELSE IF r.err # "none" THEN r
            ELSE Returned(RatAdd(s.val, r.val))

\* a filter that also keeps the transactions of a single person
SharedOrSole(th, ids) == SelectSeq(ids, LAMBDA i : Len(th[i].persons) >= 1)

\* the filter `if len(t.persons) > 1` of a generator expression
SharedOnly(th, ids) == SelectSeq(ids, LAMBDA i : Len(th[i].persons) > 1)

\* Person.total_incomes
TotalIncomes(ph, th, p) == SumShares(th, ph[p].incomes)

\* Person.total_expenses
TotalExpenses(ph, th, p) == SumShares(th, ph[p].expenses)

\* Person.profits
Profits(ph, th, p) ==
    LET i == TotalIncomes(ph, th, p)
        e == TotalExpenses(ph, th, p)
    IN IF i.err # "none" THEN i
       ELSE IF e.err # "none" THEN e
       ELSE Returned(RatSub(i.val, e.val))

\* Person.total_shared_incomes
TotalSharedIncomes(ph, th, p) == SumShares(th, SharedOnly(th, ph[p].incomes))

\* Person.total_shared_expenses
TotalSharedExpenses(ph, th, p) == SumShares(th, SharedOnly(th, ph[p].expenses))

-----------------------------------------------------------------------------
(* Object identity.  An object is <<class, name, origin>>: origin "loaded"  *)
(* for an object built by Manager._from_model and "created" for one built   *)
(* by create_person / create_income / create_expense.  No operation of the  *)
(* Manager appends to a list, so a created object is referred to by its     *)
(* dictionary entry alone: once that entry is replaced or deleted the       *)
(* object is unreachable, and the next object created under the name may    *)
(* take its identity.                                                       *)

Ident(class, name, origin) == <<class, name, origin>>

EmptyDict == [x \in {} |-> x]
Keys(d) == DOMAIN d

\* d[k] = v
DictSet(d, k, v) == [x \in Keys(d) \cup {k} |-> IF x = k THEN v ELSE d[x]]

\* del d[k]
DictDel(d, k) == [x \in Keys(d) \ {k} |-> d[x]]

Values(d) == {d[k] : k \in Keys(d)}

\* dataclass __eq__ as list.remove applies it: the same object, or two
\* objects of one class whose fields (name, then the lists) are equal.  The
\* lists are compared by the identities they hold: the objects a list holds
\* are all built by one _from_model call, one per name and class, so two
\* different objects of a list never agree on the name and the comparison
\* never goes deeper.
SameP(ph, x, y) == x = y \/ (x[1] = y[1] /\ ph[x] = ph[y])
SameT(th, x, y) == x = y \/ (x[1] = y[1] /\ th[x] = th[y])

\* list.remove(x) looks for the first item equal to x: its index, 0 when
\* there is none (ValueError)
FirstPerson(ph, l, x) ==
    IF \E i \in DOMAIN l : SameP(ph, l[i], x)
    THEN CHOOSE i \in DOMAIN l :
            SameP(ph, l[i], x) /\ \A j \in 1..(i - 1) : ~SameP(ph, l[j], x)
    ELSE 0

FirstTransaction(th, l, x) ==
    IF \E i \in DOMAIN l : SameT(th, l[i], x)
    THEN CHOOSE i \in DOMAIN l :
            SameT(th, l[i], x) /\ \A j \in 1..(i - 1) : ~SameT(th, l[j], x)
    ELSE 0

\* the list without its item at index i
DropAt(l, i) == SubSeq(l, 1, i - 1) \o SubSeq(l, i + 1, Len(l))

-----------------------------------------------------------------------------
(* manager.py: the mutations.  Each returns the ledger it leaves and the    *)
(* exception it raised, if any: [err, persons, incomes, expenses, pobj,     *)
(* tobj].                                                                   *)

State(e, ps, is, es, ph, th) ==
    [err |-> e, persons |-> ps, incomes |-> is, expenses |-> es,
     pobj |-> ph, tobj |-> th]

\* for transaction in ...: transaction.persons.remove(person)
\* [err, tobj]: stops at the first remove that raises ValueError
RECURSIVE RemovePerson(_, _, _, _)
RemovePerson(ph, th, txs, person) ==
    IF txs = <<>> THEN [err |-> "none", tobj |-> th]
    ELSE LET t == Head(txs)
             i == FirstPerson(ph, th[t].persons, person)
         IN IF i = 0 THEN [err |-> "ValueError", tobj |-> th]
            ELSE RemovePerson(
                    ph,
                    [th EXCEPT ![t].persons = DropAt(@, i)],
                    Tail(txs), person)

\* for person in transaction.persons: person.<field>.remove(transaction)
\* [err, pobj]: stops at the first remove that raises ValueError
RECURSIVE RemoveTransaction(_, _, _, _, _)
RemoveTransaction(ph, th, ps, tx, field) ==
    IF ps = <<>> THEN [err |-> "none", pobj |-> ph]
    ELSE LET p == Head(ps)
             i == FirstTransaction(th, ph[p][field], tx)
         IN IF i = 0 THEN [err |-> "ValueError", pobj |-> ph]
            ELSE RemoveTransaction(
                    [ph EXCEPT ![p][field] = DropAt(@, i)],
                    th, Tail(ps), tx, field)

\* Manager.create_person
create_person(ps, is, es, ph, th, name) ==
    LET o == Ident("Person", name, "created")
    IN State("none", DictSet(ps, name, o), is, es,
             DictSet(ph, o, NewPerson(name)), th)

\* Manager.create_income
create_income(ps, is, es, ph, th, name, amount) ==
    LET o == Ident("Income", name, "created")
    IN State("none", ps, DictSet(is, name, o), es,
             ph, DictSet(th, o, NewTransaction(name, amount)))

\* Manager.create_expense
create_expense(ps, is, es, ph, th, name, amount) ==
    LET o == Ident("Expense", name, "created")
    IN State("none", ps, is, DictSet(es, name, o),
             ph, DictSet(th, o, NewTransaction(name, amount)))

\* Manager.delete_person
delete_person(ps, is, es, ph, th, name) ==
    IF name \notin Keys(ps) THEN State("KeyError", ps, is, es, ph, th)
    ELSE LET person == ps[name]
             r == RemovePerson(ph, th, ph[person].incomes \o ph[person].expenses,
                               person)
         IN IF r.err # "none" THEN State(r.err, ps, is, es, ph, r.tobj)
            ELSE State("none", DictDel(ps, name), is, es, ph, r.tobj)

\* Manager.delete_income
delete_income(ps, is, es, ph, th, name) ==
    IF name \notin Keys(is) THEN State("KeyError", ps, is, es, ph, th)
    ELSE LET income == is[name]
             r == RemoveTransaction(ph, th, th[income].persons, income, "incomes")
         IN IF r.err # "none" THEN State(r.err, ps, is, es, r.pobj, th)
            ELSE State("none", ps, DictDel(is, name), es, r.pobj, th)

\* Manager.delete_expense
delete_expense(ps, is, es, ph, th, name) ==
    IF name \notin Keys(es) THEN State("KeyError", ps, is, es, ph, th)
    ELSE LET expense == es[name]
             r == RemoveTransaction(ph, th, th[expense].persons, expense, "expenses")
         IN IF r.err # "none" THEN State(r.err, ps, is, es, r.pobj, th)
            ELSE State("none", ps, is, DictDel(es, name), r.pobj, th)

-----------------------------------------------------------------------------
(* manager.py: the snapshot (ManagerModel) and its two conversions.  A      *)
(* snapshot is [persons, incomes, expenses], three lists of records:        *)
(* [name, incomes, expenses] for a person, [name, amount, persons] for a    *)
(* transaction; every reference is a name.                                  *)

\* the items of a set in some order (the order of a dictionary's values is
\* not kept by the model; no conversion depends on it)
RECURSIVE SetToSeq(_)
SetToSeq(S) ==
    IF S = {} THEN <<>>
    ELSE LET x == CHOOSE y \in S : TRUE IN <<x>> \o SetToSeq(S \ {x})

NamesOfT(th, ids) == [i \in DOMAIN ids |-> th[ids[i]].name]
NamesOfP(ph, ids) == [i \in DOMAIN ids |-> ph[ids[i]].name]

PersonModel(ph, th, p) ==
    [name |-> ph[p].name,
     incomes |-> NamesOfT(th, ph[p].incomes),
     expenses |-> NamesOfT(th, ph[p].expenses)]

\* IncomeModel(...) / ExpenseModel(...)
TransactionModel(ph, th, t) ==
    [name |-> th[t].name, amount |-> th[t].amount,
     persons |-> NamesOfP(ph, th[t].persons)]

\* a _to_model that builds the expense records from the incomes
ToModelIncomesTwice(ps, is, es, ph, th) ==
    LET pl == SetToSeq(Values(ps))
        il == SetToSeq(Values(is))
    IN [persons  |-> [i \in DOMAIN pl |-> PersonModel(ph, th, pl[i])],
        incomes  |-> [i \in DOMAIN il |-> TransactionModel(ph, th, il[i])],
        expenses |-> [i \in DOMAIN il |-> TransactionModel(ph, th, il[i])]]

\* Manager._to_model
ToModel(ps, is, es, ph, th) ==
    LET pl == SetToSeq(Values(ps))
        il == SetToSeq(Values(is))
        el == SetToSeq(Values(es))
    IN [persons  |-> [i \in DOMAIN pl |-> PersonModel(ph, th, pl[i])],
        incomes  |-> [i \in DOMAIN il |-> TransactionModel(ph, th, il[i])],
        expenses |-> [i \in DOMAIN el |-> TransactionModel(ph, th, el[i])]]

\* the last record of the list that carries the name: a later record of the
\* same name overwrites what an earlier one set
LastOf(l, name) ==
    l[CHOOSE i \in DOMAIN l :
        l[i].name = name /\ \A j \in (i + 1)..Len(l) : l[j].name # name]

RecordNames(l) == {l[i].name : i \in DOMAIN l}

\* manager.<dict>[name] for every name of the list: KeyError when one is absent
Resolves(names, dict) == \A i \in DOMAIN names : names[i] \in Keys(dict)

Lookup(names, dict) == [i \in DOMAIN names |-> dict[names[i]]]

\* Manager._from_model: three loops build the objects and register them by
\* name, three more set every list by looking the names up
FromModel(m) ==
    LET ps == [n \in RecordNames(m.persons)  |-> Ident("Person", n, "loaded")]
        is == [n \in RecordNames(m.incomes)  |-> Ident("Income", n, "loaded")]
        es == [n \in RecordNames(m.expenses) |-> Ident("Expense", n, "loaded")]
        dangling ==
            \/ \E i \in DOMAIN m.persons :
                  \/ ~Resolves(m.persons[i].incomes, is)
                  \/ ~Resolves(m.persons[i].expenses, es)
            \/ \E i \in DOMAIN m.incomes  : ~Resolves(m.incomes[i].persons, ps)
            \/ \E i \in DOMAIN m.expenses : ~Resolves(m.expenses[i].persons, ps)
        ph == [o \in Values(ps) |->
                 LET d == LastOf(m.persons, o[2])
                 IN [name |-> o[2],
                     incomes  |-> Lookup(d.incomes, is),
                     expenses |-> Lookup(d.expenses, es)]]
        th == [o \in Values(is) \cup Values(es) |->
                 LET d == IF o[1] = "Income" THEN LastOf(m.incomes, o[2])
                          ELSE LastOf(m.expenses, o[2])
                 IN [name |-> o[2], amount |-> d.amount,
                     persons |-> Lookup(d.persons, ps)]]
    IN IF dangling
       THEN State("KeyError", EmptyDict, EmptyDict, EmptyDict, EmptyDict, EmptyDict)
       ELSE State("none", ps, is, es, ph, th)

-----------------------------------------------------------------------------
(* manager.py: display_person.  The numbers it logs, in order; the first    *)
(* call that raises ends it, after the lines logged so far.                 *)

RECURSIVE Logged(_)
Logged(calls) ==
    IF calls = <<>> THEN [err |-> "none", val |-> <<>>]
    ELSE IF Head(calls).err # "none" THEN [err |-> Head(calls).err, val |-> <<>>]
    ELSE LET r == Logged(Tail(calls))
         IN [err |-> r.err, val |-> <<Head(calls).val>> \o r.val]

\* Manager.display_person
display_person(ps, ph, th, name) ==
    IF name \notin Keys(ps) THEN [err |-> "KeyError", val |-> <<>>]
    ELSE LET p == ps[name]
         IN Logged([i \in DOMAIN ph[p].incomes  |-> Share(th[ph[p].incomes[i]])]
                \o [i \in DOMAIN ph[p].expenses |-> Share(th[ph[p].expenses[i]])]
                \o << Profits(ph, th, p),
                      TotalIncomes(ph, th, p),
                      TotalExpenses(ph, th, p),
                      TotalSharedIncomes(ph, th, p),
                      TotalSharedExpenses(ph, th, p) >>)

-----------------------------------------------------------------------------
(* The inputs.                                                              *)

\* longest list of references in a snapshot loaded into the ledger
MaxRefs == 1
\* most records of one kind in a snapshot loaded into the ledger
MaxRecords == 2
\* longest list of references in a snapshot whose shares are computed
MaxShared == 2

PNames == {<<"a">>, <<"A">>}
INames == {<<"r">>}
ENames == {<<"f">>}
QueryINames == {<<"r">>, <<"s">>}

CreateAmounts == {-50, 0, 50}
LoadAmounts == {50}

PersonModels(pn, in, en, refs) ==
    [name : pn, incomes : SeqsUpTo(in, refs), expenses : SeqsUpTo(en, refs)]

TransactionModels(tn, pn, am, refs) ==
    [name : tn, amount : am, persons : SeqsUpTo(pn, refs)]

\* the snapshots loaded before the ledger is mutated
LedgerSnapshots ==
    [persons  : SeqsUpTo(PersonModels(PNames, INames, ENames, MaxRefs), MaxRecords),
     incomes  : SeqsUpTo(TransactionModels(INames, PNames, LoadAmounts, MaxRefs), MaxRecords),
     expenses : SeqsUpTo(TransactionModels(ENames, PNames, LoadAmounts, MaxRefs), MaxRecords)]

-----------------------------------------------------------------------------
(* The state machine.                                                       *)

Call(op, name, amount, err, val) ==
    [op |-> op, name |-> name, amount |-> amount, err |-> err, val |-> val]

Init ==
    /\ persons = EmptyDict
    /\ incomes = EmptyDict
    /\ expenses = EmptyDict
    /\ pobj = EmptyDict
    /\ tobj = EmptyDict
    /\ last = Call("init", <<>>, 0, "none", <<>>)
    /\ text = <<>>
    /\ slug = <<>>

\* the ledger after a mutation, raised or not
Becomes(r) ==
    /\ persons' = r.persons
    /\ incomes' = r.incomes
    /\ expenses' = r.expenses
    /\ pobj' = r.pobj
    /\ tobj' = r.tobj
    /\ UNCHANGED <<text, slug>>

\* Manager.load builds a new Manager from the file (cli.py: the ledger the
\* program works on is the empty one or the loaded one); when it raises, no
\* Manager is returned
Load(snapshots) ==
    /\ last.op = "init"
    /\ \E m \in snapshots :
          LET r == FromModel(m)
          IN /\ IF r.err = "none" THEN Becomes(r)
                ELSE UNCHANGED <<persons, incomes, expenses, pobj, tobj, text, slug>>
             /\ last' = Call("load", <<>>, 0, r.err, <<>>)

CreatePerson ==
    \E name \in PNames :
        LET r == create_person(persons, incomes, expenses, pobj, tobj, name)
        IN Becomes(r) /\ last' = Call("create_person", name, 0, r.err, <<>>)

CreateIncome ==
    \E name \in INames, amount \in CreateAmounts :
        LET r == create_income(persons, incomes, expenses, pobj, tobj, name, amount)
        IN Becomes(r) /\ last' = Call("create_income", name, amount, r.err, <<>>)

CreateExpense ==
    \E name \in ENames, amount \in CreateAmounts :
        LET r == create_expense(persons, incomes, expenses, pobj, tobj, name, amount)
        IN Becomes(r) /\ last' = Call("create_expense", name, amount, r.err, <<>>)

DeletePerson ==
    \E name \in PNames :
        LET r == delete_person(persons, incomes, expenses, pobj, tobj, name)
        IN Becomes(r) /\ last' = Call("delete_person", name, 0, r.err, <<>>)

DeleteIncome ==
    \E name \in INames :
        LET r == delete_income(persons, incomes, expenses, pobj, tobj, name)
        IN Becomes(r) /\ last' = Call("delete_income", name, 0, r.err, <<>>)

DeleteExpense ==
    \E name \in ENames :
        LET r == delete_expense(persons, incomes, expenses, pobj, tobj, name)
        IN Becomes(r) /\ last' = Call("delete_expense", name, 0, r.err, <<>>)

LoadLedger == Load(LedgerSnapshots)

Next ==
    \/ LoadLedger
    \/ CreatePerson
    \/ CreateIncome
    \/ CreateExpense
    \/ DeletePerson
    \/ DeleteIncome
    \/ DeleteExpense

Spec == Init /\ [][Next]_vars

-----------------------------------------------------------------------------
(* The ledger's contract, stated on the state machine above.                *)

Registered(dict, th, t) == th[t].name \in Keys(dict) /\ dict[th[t].name] = t

\* C1: in every reachable ledger a registered person is in a registered
\* transaction's persons list exactly when the transaction is in the
\* person's incomes or expenses list, and every object a list of a
\* registered entity refers to is the one registered under its name.
C1_Symmetric ==
    /\ \A p \in Values(persons) :
          /\ \A t \in Values(incomes) :
                (p \in Range(tobj[t].persons)) <=> (t \in Range(pobj[p].incomes))
          /\ \A t \in Values(expenses) :
                (p \in Range(tobj[t].persons)) <=> (t \in Range(pobj[p].expenses))
          /\ \A t \in Range(pobj[p].incomes) : Registered(incomes, tobj, t)
          /\ \A t \in Range(pobj[p].expenses) : Registered(expenses, tobj, t)
    /\ \A t \in Values(incomes) \cup Values(expenses) :
          \A p \in Range(tobj[t].persons) :
              pobj[p].name \in Keys(persons) /\ persons[pobj[p].name] = p

\* C2: after a successful delete_person(p), p is no key of the persons map
\* and no registered income or expense has a person named p in its list.
C2_DeletedPersonGone ==
    (last.op = "delete_person" /\ last.err = "none") =>
        /\ last.name \notin Keys(persons)
        /\ \A t \in Values(incomes) \cup Values(expenses) :
              \A p \in Range(tobj[t].persons) : pobj[p].name # last.name

\* C3: a create whose name slugifies to the id of a registered entity of its
\* kind fails with AlreadyExists and leaves the ledger as it was.
C3_CreateCollisionFails ==
    [][/\ (last'.op = "create_person"
             /\ \E k \in Keys(persons) : slugify(k) = slugify(last'.name))
          => (last'.err = "AlreadyExists" /\ UNCHANGED ledger)
       /\ (last'.op = "create_income"
             /\ \E k \in Keys(incomes) : slugify(k) = slugify(last'.name))
          => (last'.err = "AlreadyExists" /\ UNCHANGED ledger)
       /\ (last'.op = "create_expense"
             /\ \E k \in Keys(expenses) : slugify(k) = slugify(last'.name))
          => (last'.err = "AlreadyExists" /\ UNCHANGED ledger)]_vars

\* C4: create_income(n, v) stores the amount |v| and create_expense(n, v)
\* stores -|v|.
C4_SignCanonical ==
    /\ last.op = "create_income" =>
          (last.name \in Keys(incomes)
             /\ tobj[incomes[last.name]].amount = Abs(last.amount))
    /\ last.op = "create_expense" =>
          (last.name \in Keys(expenses)
             /\ tobj[expenses[last.name]].amount = -Abs(last.amount))

\* C7: a delete_person, delete_income or delete_expense that fails leaves
\* every list and every registration as it was before the call.
C7_FailedDeleteChangesNothing ==
    [][(last'.op \in {"delete_person", "delete_income", "delete_expense"}
          /\ last'.err # "none")
       => UNCHANGED ledger]_vars

\* C10: in every reachable ledger the five totals of every registered person
\* return a value: every transaction in a registered person's lists has at
\* least one person, and a person with empty lists gets 0 five times.
C10_TotalsNeverRaise ==
    \A p \in Values(persons) :
        LET totals == << TotalIncomes(pobj, tobj, p),
                         TotalExpenses(pobj, tobj, p),
                         Profits(pobj, tobj, p),
                         TotalSharedIncomes(pobj, tobj, p),
                         TotalSharedExpenses(pobj, tobj, p) >>
        IN /\ \A i \in 1..5 : totals[i].err = "none"
           /\ \A t \in Range(pobj[p].incomes) \cup Range(pobj[p].expenses) :
                 Len(tobj[t].persons) >= 1
           /\ (pobj[p].incomes = <<>> /\ pobj[p].expenses = <<>>) =>
                 \A i \in 1..5 : totals[i].val = RatInt(0)

-----------------------------------------------------------------------------
(* Shares and totals: a ledger is loaded, then share() and display_person   *)
(* are called on it.                                                        *)

QueryAmounts == {25, 50}

\* person a holds incomes and expenses, person A holds none; income r and
\* expense f name up to MaxShared persons, income s is allocated to a alone
QuerySnapshots ==
    [persons  : { <<pa, [name |-> <<"A">>, incomes |-> <<>>, expenses |-> <<>>]>> :
                    pa \in PersonModels({<<"a">>}, QueryINames, ENames, MaxShared) },
     incomes  : { <<r, [name |-> <<"s">>, amount |-> 30, persons |-> << <<"a">> >>]>> :
                    r \in TransactionModels({<<"r">>}, PNames, QueryAmounts, MaxShared) },
     expenses : { <<f>> :
                    f \in TransactionModels(ENames, PNames, {-50}, MaxShared) }]

LoadQuery == Load(QuerySnapshots)

\* t.share() on a transaction of the ledger
ShareCall ==
    \E t \in DOMAIN tobj :
        LET r == Share(tobj[t])
        IN /\ last' = Call("share", t, tobj[t].amount, r.err, <<r.val>>)
           /\ UNCHANGED <<persons, incomes, expenses, pobj, tobj, text, slug>>

DisplayPerson ==
    \E name \in PNames :
        LET r == display_person(persons, pobj, tobj, name)
        IN /\ last' = Call("display_person", name, 0, r.err, r.val)
           /\ UNCHANGED <<persons, incomes, expenses, pobj, tobj, text, slug>>

NextQuery ==
    \/ LoadQuery
    \/ ShareCall
    \/ DisplayPerson

QuerySpec == Init /\ [][NextQuery]_vars

\* C5: share() of a transaction with N >= 1 persons returns amount / N (N
\* times the share is the amount; with one person the share is the amount),
\* and with no person it raises ValueError and returns nothing.
C5_ShareIsAmountOverN ==
    /\ \A t \in DOMAIN tobj :
          LET n == Len(tobj[t].persons)
              r == Share(tobj[t])
          IN /\ n >= 1 => /\ r.err = "none"
                          /\ RatMulInt(r.val, n) = RatInt(tobj[t].amount)
             /\ n = 1 => r.val = RatInt(tobj[t].amount)
             /\ n = 0 => r.err = "ValueError"
    /\ last.op = "share" =>
          LET n == Len(tobj[last.name].persons)
          IN IF n = 0 THEN last.err = "ValueError"
             ELSE /\ last.err = "none"
                  /\ RatMulInt(last.val[1], n) = RatInt(last.amount)

\* a share of a transaction split between two persons has been returned
C5_Witness ==
    /\ last.op = "share"
    /\ last.err = "none"
    /\ Len(tobj[last.name].persons) = 2
    /\ last.val[1] = <<25, 1>>
    /\ last.amount = 50

\* the amounts of the transactions of the list that have exactly one person
RECURSIVE SoleAmounts(_, _)
SoleAmounts(th, ids) ==
    IF ids = <<>> THEN 0
    ELSE (IF Len(th[Head(ids)].persons) = 1 THEN th[Head(ids)].amount ELSE 0)
         + SoleAmounts(th, Tail(ids))

HasShared(th, ids) == \E i \in DOMAIN ids : Len(th[ids[i]].persons) > 1
HasSole(th, ids) == \E i \in DOMAIN ids : Len(th[ids[i]].persons) = 1

SharedTotalOK(th, ids, shared, total) ==
    /\ shared.err = "none"
    /\ total.err = "none" =>
          shared.val = RatSub(total.val, RatInt(SoleAmounts(th, ids)))
    /\ ~HasShared(th, ids) => shared.val = RatInt(0)

\* C8: total_shared_incomes (total_shared_expenses) of a person is the sum of
\* the shares of the incomes (expenses) of its list that have more than one
\* person: it is the total minus the amounts of the transactions allocated
\* to one person alone, and 0 when the person has no shared transaction.
C8_SharedTotals ==
    \A p \in DOMAIN pobj :
        /\ SharedTotalOK(tobj, pobj[p].incomes,
                         TotalSharedIncomes(pobj, tobj, p), TotalIncomes(pobj, tobj, p))
        /\ SharedTotalOK(tobj, pobj[p].expenses,
                         TotalSharedExpenses(pobj, tobj, p), TotalExpenses(pobj, tobj, p))

\* display_person has logged the totals of a person who holds an income of
\* its own and an income shared with someone else
C8_Witness ==
    /\ last.op = "display_person"
    /\ last.err = "none"
    /\ last.name \in Keys(persons)
    /\ LET p == persons[last.name]
       IN /\ HasShared(tobj, pobj[p].incomes)
          /\ HasSole(tobj, pobj[p].incomes)
          /\ TotalSharedIncomes(pobj, tobj, p).val # TotalIncomes(pobj, tobj, p).val
          /\ TotalSharedIncomes(pobj, tobj, p).val # RatInt(0)
          /\ last.val[Len(last.val) - 1] = TotalSharedIncomes(pobj, tobj, p).val

-----------------------------------------------------------------------------
(* Save and load: a ledger built by create and delete calls is saved to a   *)
(* file and loaded back.                                                    *)

\* manager.save(path) followed by Manager.load(path): json.dump writes the
\* snapshot and json.load reads the same names, numbers and lists back
SaveLoad ==
    LET r == FromModel(ToModel(persons, incomes, expenses, pobj, tobj))
    IN /\ IF r.err = "none" THEN Becomes(r)
          ELSE UNCHANGED <<persons, incomes, expenses, pobj, tobj, text, slug>>
       /\ last' = Call("save_load", <<>>, 0, r.err, <<>>)

NextRoundTrip ==
    \/ CreatePerson
    \/ CreateIncome
    \/ CreateExpense
    \/ DeletePerson
    \/ DeleteIncome
    \/ DeleteExpense
    \/ SaveLoad

RoundTripSpec == Init /\ [][NextRoundTrip]_vars

\* what a ledger holds, by name: the names registered, the amount of every
\* transaction, and the names each list holds, in order
Contents(ps, is, es, ph, th) ==
    [persons  |-> [n \in Keys(ps) |->
                     [name |-> ph[ps[n]].name,
                      incomes |-> NamesOfT(th, ph[ps[n]].incomes),
                      expenses |-> NamesOfT(th, ph[ps[n]].expenses)]],
     incomes  |-> [n \in Keys(is) |->
                     [name |-> th[is[n]].name, amount |-> th[is[n]].amount,
                      persons |-> NamesOfP(ph, th[is[n]].persons)]],
     expenses |-> [n \in Keys(es) |->
                     [name |-> th[es[n]].name, amount |-> th[es[n]].amount,
                      persons |-> NamesOfP(ph, th[es[n]].persons)]]]

\* C6: on a ledger reached by create and delete calls, save followed by load
\* succeeds and the loaded ledger holds the same names, the same amounts and
\* the same lists of names, in the same order.
C6_RoundTrip ==
    [][last'.op = "save_load" =>
          /\ last'.err = "none"
          /\ Contents(persons', incomes', expenses', pobj', tobj')
               = Contents(persons, incomes, expenses, pobj, tobj)]_vars

\* a ledger with a person, an income and an expense of opposite signs has
\* been saved and loaded
C6_Witness ==
    /\ last.op = "save_load"
    /\ last.err = "none"
    /\ Keys(persons) = PNames
    /\ \E n \in Keys(incomes) :
          incomes[n][3] = "loaded" /\ tobj[incomes[n]].amount = -50
    /\ \E n \in Keys(expenses) :
          expenses[n][3] = "loaded" /\ tobj[expenses[n]].amount = 50

-----------------------------------------------------------------------------
(* slugify applied to a text, then to its own result.                       *)

InitSlug ==
    /\ persons = EmptyDict
    /\ incomes = EmptyDict
    /\ expenses = EmptyDict
    /\ pobj = EmptyDict
    /\ tobj = EmptyDict
    /\ last = Call("init", <<>>, 0, "none", <<>>)
    /\ text \in Texts
    /\ slug = <<>>

Slugify ==
    /\ slug = <<>>
    /\ slug' = <<slugify(text)>>
    /\ UNCHANGED <<persons, incomes, expenses, pobj, tobj, last, text>>

SlugifyAgain ==
    /\ Len(slug) = 1
    /\ slug' = Append(slug, slugify(slug[1]))
    /\ UNCHANGED <<persons, incomes, expenses, pobj, tobj, last, text>>

NextSlug ==
    \/ Slugify
    \/ SlugifyAgain

SlugSpec == InitSlug /\ [][NextSlug]_vars

\* lowercase letters, digits and single hyphens, no hyphen at either end
WellFormedSlug(s) ==
    /\ \A i \in DOMAIN s : IsAlnum(s[i]) \/ s[i] = "-"
    /\ \A i \in 1..(Len(s) - 1) : ~(s[i] = "-" /\ s[i + 1] = "-")
    /\ s # <<>> => s[1] # "-" /\ s[Len(s)] # "-"

\* the characters of Chars that are letters or digits (str.isalnum)
AlphanumericChars == {"a", "A", "1", "EACUTE", "YING"}

HasAlphanumeric(t) == \E i \in DOMAIN t : t[i] \in AlphanumericChars

\* the ASCII transliteration of the text holds a letter or a digit
TransliteratesToAlnum(t) ==
    \E i \in DOMAIN Unidecode(t) : IsAlnum(LowerChar(Unidecode(t)[i]))

\* C9 as stated: slugify is idempotent, its result is made of lowercase
\* letters, digits and single hyphens with none at the ends, and it is empty
\* when the text is empty or holds no alphanumeric character.
C9_AsStated ==
    /\ Len(slug) = 2 => slug[2] = slug[1]
    /\ \A i \in DOMAIN slug : WellFormedSlug(slug[i])
    /\ (Len(slug) >= 1 /\ ~HasAlphanumeric(text)) => slug[1] = <<>>

\* C9: slugify is idempotent, its result is made of lowercase letters, digits
\* and single hyphens with none at the ends, and it is empty when the text is
\* empty or its ASCII transliteration holds no letter and no digit.
C9_Slugify ==
    /\ Len(slug) = 2 => slug[2] = slug[1]
    /\ \A i \in DOMAIN slug : WellFormedSlug(slug[i])
    /\ (Len(slug) >= 1 /\ ~TransliteratesToAlnum(text)) => slug[1] = <<>>

\* a text with a letter to fold, a run to collapse and an end to strip has
\* been slugified twice
C9_Witness ==
    /\ text = <<"A", " ", "YING">>
    /\ slug = << <<"a", "-", "y", "i", "n", "g">>, <<"a", "-", "y", "i", "n", "g">> >>

=============================================================================
